---- MODULE Spec2Model ----
\* YouTube data harvester: the warehouse gateway (database_manager.py), the
\* API client (youtube_api_handler.py) and the Streamlit orchestration
\* (app.py) as state machines.
EXTENDS Integers, Sequences, FiniteSets, TLC

VARIABLES
    channels,   \* table 'channels': a set of rows
    videos,     \* table 'videos'
    comments,   \* table 'comments'
    gw,         \* the gateway call made last: [op, repeats, last, ok, once]
    api,        \* the API client call made last, its upstream and its outcome
    dp,         \* the data processor call made last, its argument and result
    staging,    \* st.session_state['collected_channels_data']: channel ID ->
                \* [channel_info, videos, comments]
    order,      \* the insertion order of the keys of staging
    pc,         \* "idle" between button clicks, "load" inside the migrate
                \* loop, "finish" after it
    idx,        \* the staged channel the migrate loop is at
    step,       \* the step of the loop body to run next
    writes,     \* the gateway writes issued so far by the current migration
    totals,     \* total_channels_migrated, total_videos_migrated,
                \* total_comments_migrated
    fetches,    \* the API client calls issued by the handler step taken last
    fetched,    \* history: per staged channel, whether the fetch that
                \* staged its videos, and the one that staged its comments,
                \* ran to the end with no upstream failure
    fresh,      \* history: whether the running migration started on an
                \* empty warehouse
    cache,      \* the entries st.cache_data holds: key -> [at, call, value]
    now,        \* the clock st.cache_data reads, in seconds
    youtube     \* what YouTube holds now and whether its requests fail

gwvars == <<channels, videos, comments, gw>>
apivars == <<api>>
dpvars == <<dp>>
cachevars == <<cache, now, youtube>>
orchvars == <<staging, order, pc, idx, step, writes, totals, fetches, fetched,
              fresh>>
vars == <<channels, videos, comments, gw, api, dp, staging, order, pc, idx,
          step, writes, totals, fetches, fetched, fresh, cache, now, youtube>>

\* ------------------------------------------------------------------ bounds
\* longest row batch handed to one gateway call
MaxBatch == 2

\* ---------------------------------------------------------------- universe

\* rows as the DataFrames carry them, one record per row; ver stands for one
\* snapshot of the entity's mutable attributes
MkChannel(id, ver) ==
    [channel_id |-> id, channel_name |-> <<"name", id, ver>>,
     subscribers |-> 100 * ver, total_videos |-> 10 * ver,
     uploads_playlist_id |-> <<"UU", id, ver>>]

MkVideo(id, ch, ver) ==
    [video_id |-> id, channel_id |-> ch, title |-> <<"title", id, ver>>,
     published_date |-> <<"date", ver>>, views |-> 1000 * ver,
     likes |-> 100 * ver, comments_count |-> 10 * ver,
     duration_seconds |-> 60 * ver]

MkComment(id, vid, ver) ==
    [comment_id |-> id, video_id |-> vid, author |-> <<"author", ver>>,
     comment_text |-> <<"text", id, ver>>, published_date |-> <<"date", ver>>]

\* the rows the gateway is called with when it is exercised on its own
ChannelRows == {MkChannel("c1", 1), MkChannel("c1", 2), MkChannel("c2", 1)}
VideoRows == {MkVideo(1, "c1", 1), MkVideo(1, "c2", 2), MkVideo(2, "c1", 1)}
CommentRows == {MkComment(11, 1, 1), MkComment(11, 2, 2)}

Batches(S) == UNION {[1..n -> S] : n \in 0..MaxBatch}

\* ----------------------------------------------------------------- gateway
\* session.query(Channel).filter_by(channel_id=...).first(); the session
\* autoflushes, so rows added earlier in the batch are seen
existing_channel(tbl, id) == {r \in tbl : r.channel_id = id}
existing_video(tbl, id) == {r \in tbl : r.video_id = id}
existing_comment(tbl, id) == {r \in tbl : r.comment_id = id}

\* the four assignments of the update branch of insert_channel_data
update_channel_accumulates(old, row) ==
    [old EXCEPT !.channel_name = row.channel_name,
                !.subscribers = old.subscribers + row.subscribers,
                !.total_videos = row.total_videos,
                !.uploads_playlist_id = row.uploads_playlist_id]

update_channel(old, row) ==
    [old EXCEPT !.channel_name = row.channel_name,
                !.subscribers = row.subscribers,
                !.total_videos = row.total_videos,
                !.uploads_playlist_id = row.uploads_playlist_id]

\* the six assignments of the update branch of insert_video_data
update_video_moves_channel(old, row) == row

update_video(old, row) ==
    [old EXCEPT !.title = row.title,
                !.views = row.views,
                !.likes = row.likes,
                !.comments_count = row.comments_count,
                !.duration_seconds = row.duration_seconds,
                !.published_date = row.published_date]

\* one iteration of the loop of insert_channel_data
channel_row_always_add(tbl, row) == [ok |-> TRUE, table |-> tbl \cup {row}]

channel_row(tbl, row) ==
    LET found == existing_channel(tbl, row.channel_id) IN
    IF found # {}
    THEN LET old == CHOOSE r \in found : TRUE IN
         [ok |-> TRUE, table |-> (tbl \ {old}) \cup {update_channel(old, row)}]
    ELSE [ok |-> TRUE, table |-> tbl \cup {row}]

\* one iteration of the loop of insert_video_data; a new row whose channel_id
\* names no stored channel breaks fk_channel_id_videos when it is flushed
video_row_no_fk(chans, tbl, row) ==
    LET found == existing_video(tbl, row.video_id) IN
    IF found # {}
    THEN LET old == CHOOSE r \in found : TRUE IN
         [ok |-> TRUE, table |-> (tbl \ {old}) \cup {update_video(old, row)}]
    ELSE [ok |-> TRUE, table |-> tbl \cup {row}]

video_row(chans, tbl, row) ==
    LET found == existing_video(tbl, row.video_id) IN
    IF found # {}
    THEN LET old == CHOOSE r \in found : TRUE IN
         [ok |-> TRUE, table |-> (tbl \ {old}) \cup {update_video(old, row)}]
    ELSE IF existing_channel(chans, row.channel_id) = {}
         THEN [ok |-> FALSE, table |-> tbl]
         ELSE [ok |-> TRUE, table |-> tbl \cup {row}]

\* one iteration of the loop of insert_comment_data; fk_video_id_comments
comment_row_overwrite(vids, tbl, row) ==
    IF existing_video(vids, row.video_id) = {}
    THEN [ok |-> FALSE, table |-> tbl]
    ELSE [ok |-> TRUE,
          table |-> (tbl \ existing_comment(tbl, row.comment_id)) \cup {row}]

comment_row(vids, tbl, row) ==
    IF existing_comment(tbl, row.comment_id) # {}
    THEN [ok |-> TRUE, table |-> tbl]
    ELSE IF existing_video(vids, row.video_id) = {}
         THEN [ok |-> FALSE, table |-> tbl]
         ELSE [ok |-> TRUE, table |-> tbl \cup {row}]

\* except: session.rollback() gives the table as it was before the call
rollback_keeps_flushed(before, pending) == pending

rollback(before, pending) == before

\* the try block of insert_channel_data from row i on. failAt is where the
\* store raises (a lost connection, a server error): at row failAt, at the
\* commit when failAt = Len(rows) + 1, nowhere when failAt = 0
RECURSIVE channel_session(_, _, _, _, _)
channel_session(before, pending, rows, i, failAt) ==
    IF failAt = i
    THEN [ok |-> FALSE, table |-> rollback(before, pending)]
    ELSE IF i > Len(rows)
    THEN [ok |-> TRUE, table |-> pending]
    ELSE LET s == channel_row(pending, rows[i]) IN
         IF s.ok
         THEN channel_session(before, s.table, rows, i + 1, failAt)
         ELSE [ok |-> FALSE, table |-> rollback(before, s.table)]

RECURSIVE video_session(_, _, _, _, _, _)
video_session(chans, before, pending, rows, i, failAt) ==
    IF failAt = i
    THEN [ok |-> FALSE, table |-> rollback(before, pending)]
    ELSE IF i > Len(rows)
    THEN [ok |-> TRUE, table |-> pending]
    ELSE LET s == video_row(chans, pending, rows[i]) IN
         IF s.ok
         THEN video_session(chans, before, s.table, rows, i + 1, failAt)
         ELSE [ok |-> FALSE, table |-> rollback(before, s.table)]

RECURSIVE comment_session(_, _, _, _, _, _)
comment_session(vids, before, pending, rows, i, failAt) ==
    IF failAt = i
    THEN [ok |-> FALSE, table |-> rollback(before, pending)]
    ELSE IF i > Len(rows)
    THEN [ok |-> TRUE, table |-> pending]
    ELSE LET s == comment_row(vids, pending, rows[i]) IN
         IF s.ok
         THEN comment_session(vids, before, s.table, rows, i + 1, failAt)
         ELSE [ok |-> FALSE, table |-> rollback(before, s.table)]

\* the three write calls: nothing is done for an empty DataFrame
insert_channel_data(tbl, rows, failAt) ==
    IF rows = <<>> THEN [ok |-> TRUE, table |-> tbl]
    ELSE channel_session(tbl, tbl, rows, 1, failAt)

insert_video_data(chans, tbl, rows, failAt) ==
    IF rows = <<>> THEN [ok |-> TRUE, table |-> tbl]
    ELSE video_session(chans, tbl, tbl, rows, 1, failAt)

insert_comment_data(vids, tbl, rows, failAt) ==
    IF rows = <<>> THEN [ok |-> TRUE, table |-> tbl]
    ELSE comment_session(vids, tbl, tbl, rows, 1, failAt)

\* ---------------------------------------------------------- data processor
\* a value handed to parse_duration: a string, as its characters, or None
Str(chars) == [type |-> "str", chars |-> chars]
None == [type |-> "None"]

DigitChars == {"0", "1", "2", "3", "4", "5", "6", "7", "8", "9"}

DigitValue(c) ==
    CASE c = "0" -> 0 [] c = "1" -> 1 [] c = "2" -> 2 [] c = "3" -> 3
      [] c = "4" -> 4 [] c = "5" -> 5 [] c = "6" -> 6 [] c = "7" -> 7
      [] c = "8" -> 8 [] c = "9" -> 9

\* where the run of digits that starts at position i ends (the first position
\* after it): the greedy \d+
RECURSIVE DigitsEnd(_, _)
DigitsEnd(s, i) ==
    IF i <= Len(s) /\ s[i] \in DigitChars THEN DigitsEnd(s, i + 1) ELSE i

\* int() of the digits s[i..j-1]
RECURSIVE IntOf(_, _, _)
IntOf(s, i, j) ==
    IF j <= i THEN 0 ELSE 10 * IntOf(s, i, j - 1) + DigitValue(s[j - 1])

\* one optional group (?:(\d+)X)? of duration_re tried at position i: its
\* value (0 when the group does not take part) and where the match goes on
DurationGroup(s, i, letter) ==
    LET j == DigitsEnd(s, i) IN
    IF j > i /\ j <= Len(s) /\ s[j] = letter
    THEN [value |-> IntOf(s, i, j), next |-> j + 1]
    ELSE [value |-> 0, next |-> i]

\* parse_duration: duration_re.match anchors at the start of the string only
parse_duration(duration_str) ==
    IF duration_str.type # "str" THEN 0
    ELSE LET s == duration_str.chars IN
         IF ~(Len(s) >= 1 /\ s[1] = "P") THEN 0
         ELSE LET days == DurationGroup(s, 2, "D") IN
              IF ~(days.next <= Len(s) /\ s[days.next] = "T") THEN 0
              ELSE LET hours == DurationGroup(s, days.next + 1, "H")
                       minutes == DurationGroup(s, hours.next, "M")
                       seconds == DurationGroup(s, minutes.next, "S")
                   IN (days.value * 24 * 3600) + (hours.value * 3600)
                      + (minutes.value * 60) + seconds.value

\* pd.to_datetime(...).dt.date of an ISO-8601 timestamp <<date, time of day>>
to_date(timestamp) == timestamp[1]

\* process_channel_data: no row for a falsy value, else the dict as one row.
\* An optional dict is a sequence of no or one dict
process_channel_data(channel_details) ==
    IF channel_details = <<>> THEN <<>> ELSE <<channel_details[1]>>

\* one row of process_video_data
video_row_of_raw_date(d) ==
    [video_id |-> d.video_id, channel_id |-> d.channel_id, title |-> d.title,
     published_date |-> d.published_date, views |-> d.views,
     likes |-> d.likes, comments_count |-> d.comments_count,
     duration_seconds |-> parse_duration(d.duration)]

video_row_of(d) ==
    [video_id |-> d.video_id, channel_id |-> d.channel_id, title |-> d.title,
     published_date |-> to_date(d.published_date), views |-> d.views,
     likes |-> d.likes, comments_count |-> d.comments_count,
     duration_seconds |-> parse_duration(d.duration)]

process_video_data(video_details_list) ==
    IF video_details_list = <<>> THEN <<>>
    ELSE [j \in 1..Len(video_details_list) |-> video_row_of(video_details_list[j])]

\* one row of process_comment_data
comment_row_of(d) == [d EXCEPT !.published_date = to_date(d.published_date)]

process_comment_data(comments_list) ==
    IF comments_list = <<>> THEN <<>>
    ELSE [j \in 1..Len(comments_list) |-> comment_row_of(comments_list[j])]

\* -------------------------------------------------------------- API client
Min(a, b) == IF a < b THEN a ELSE b

\* the upstream resources. A videos().list item and a commentThreads().list
\* item, as far as the client reads them
Uploader(v) == IF v <= 2 THEN "c1" ELSE "c2"

VideoItem(v) ==
    [id |-> v,
     snippet |-> [channelId |-> Uploader(v), title |-> <<"title", v>>,
                  publishedAt |-> <<"2023-01-01", "T00:00:00Z">>],
     statistics |-> IF v % 2 = 0
                    THEN [viewCount |-> 1000 + v, commentCount |-> v]
                    ELSE [viewCount |-> 1000 + v, likeCount |-> 100 + v,
                          commentCount |-> v],
     contentDetails |-> [duration |-> Str(<<"P", "T", "5", "M">>)]]

ThreadItem(c) ==
    [id |-> c,
     snippet |-> [topLevelComment |-> [snippet |->
         [authorDisplayName |-> <<"author", c>>, textDisplay |-> <<"text", c>>,
          publishedAt |-> <<"2023-01-02", "T10:00:00Z">>]]]]

\* statistics.get(name, 0)
Stat(statistics, name) ==
    IF name \in DOMAIN statistics THEN statistics[name] ELSE 0

\* the dict built from one item of a videos().list response
video_details(item) ==
    [video_id |-> item.id,
     channel_id |-> item.snippet.channelId,
     title |-> item.snippet.title,
     published_date |-> item.snippet.publishedAt,
     views |-> Stat(item.statistics, "viewCount"),
     likes |-> Stat(item.statistics, "likeCount"),
     comments_count |-> Stat(item.statistics, "commentCount"),
     duration |-> item.contentDetails.duration]

\* the dict built from one item of a commentThreads().list response
comment_info(video_id, item) ==
    [comment_id |-> item.id,
     video_id |-> video_id,
     author |-> item.snippet.topLevelComment.snippet.authorDisplayName,
     comment_text |-> item.snippet.topLevelComment.snippet.textDisplay,
     published_date |-> item.snippet.topLevelComment.snippet.publishedAt]

\* a channels().list item, as far as the client reads it
ChannelItem(id, ver, video_count) ==
    [id |-> id,
     snippet |-> [title |-> <<"name", id, ver>>],
     statistics |-> [subscriberCount |-> 100 * ver, videoCount |-> video_count],
     contentDetails |-> [relatedPlaylists |-> [uploads |-> <<"UU", id>>]]]

\* get_channel_details: upstream is the answer of channels().list,
\* [outcome, items]. The result is an optional dict: <<>> is None. An item
\* that lacks a key raises KeyError, which except Exception catches
get_channel_details(channel_id, upstream) ==
    IF upstream.outcome # "ok" THEN <<>>
    ELSE IF upstream.items = <<>> THEN <<>>
    ELSE IF ~({"id", "snippet", "statistics", "contentDetails"}
                 \subseteq DOMAIN upstream.items[1]) THEN <<>>
    ELSE LET channel_data == upstream.items[1] IN
         <<[channel_id |-> channel_data.id,
            channel_name |-> channel_data.snippet.title,
            subscribers |-> Stat(channel_data.statistics, "subscriberCount"),
            total_videos |-> Stat(channel_data.statistics, "videoCount"),
            uploads_playlist_id |-> channel_data.contentDetails.relatedPlaylists.uploads]>>

\* a playlistItems().list item, as far as the client reads it
PlaylistItem(v) == [contentDetails |-> [videoId |-> v]]

\* no page token: pageToken=None of the first request, and a response that
\* carries no nextPageToken
NoToken == 0

\* the except branches of get_playlist_video_ids: st.error and return []
playlist_except_keeps_pages(video_ids, requests) ==
    [result |-> video_ids, requests |-> requests, diag |-> "error"]

playlist_except(video_ids, requests) ==
    [result |-> <<>>, requests |-> requests, diag |-> "error"]

\* response.get('nextPageToken') and the test that leaves the loop
next_token_ignored(response) == NoToken

next_token(response) == response.nextPageToken

\* maxResults=50 of every playlistItems().list request
PlaylistPageSize == 50

\* one turn of the while loop of get_playlist_video_ids. pages maps a page
\* token to the page the upstream serves for it: [outcome, items,
\* nextPageToken]. st: the list built so far and the requests issued. The
\* turn gives: whether the function returned, what it returned, the token
\* and st of the next turn
playlist_turn(pages, next_page_token, st) ==
    LET requests == Append(st.requests, [maxResults |-> PlaylistPageSize,
                                         pageToken |-> next_page_token])
        response == pages[next_page_token]
    IN
    IF response.outcome # "ok"
    THEN [done |-> TRUE, out |-> playlist_except(st.video_ids, requests),
          token |-> next_page_token, st |-> st]
    ELSE LET video_ids == st.video_ids \o
                 [j \in 1..Len(response.items) |->
                     response.items[j].contentDetails.videoId]
         IN
         [done |-> next_token(response) = NoToken,
          out |-> [result |-> video_ids, requests |-> requests, diag |-> "none"],
          token |-> next_token(response),
          st |-> [video_ids |-> video_ids, requests |-> requests]]

\* the while loop of get_playlist_video_ids
RECURSIVE playlist_loop(_, _, _)
playlist_loop(pages, next_page_token, st) ==
    LET turn == playlist_turn(pages, next_page_token, st) IN
    IF turn.done THEN turn.out
    ELSE playlist_loop(pages, turn.token, turn.st)

get_playlist_video_ids(playlist_id, pages) ==
    playlist_loop(pages, NoToken, [video_ids |-> <<>>, requests |-> <<>>])

\* the per-call limit of videos().list
BatchSize == 50

\* video_ids[i:i+50], i counted from 0
batch_ids_overlapping(video_ids, i) ==
    SubSeq(video_ids, i + 1, Min(i + BatchSize + 1, Len(video_ids)))

batch_ids(video_ids, i) ==
    SubSeq(video_ids, i + 1, Min(i + BatchSize, Len(video_ids)))

\* request.execute() of the k-th videos().list call, for ids: the upstream
\* answers outcomes[k] and, when it answers, with the items of the videos
\* that exist, in the order asked
videos_list(upstream, k, ids) ==
    [outcome |-> upstream.outcomes[k],
     items |-> IF upstream.outcomes[k] = "ok"
               THEN LET kept == SelectSeq(ids, LAMBDA v : v \notin upstream.gone) IN
                    [j \in 1..Len(kept) |-> VideoItem(kept[j])]
               ELSE <<>>]

\* the body of the for loop of get_video_details from offset i on; st is what
\* the loop has built: the list, the calls issued, the diagnostics shown
RECURSIVE video_details_loop(_, _, _, _)
video_details_loop(video_ids, upstream, i, st) ==
    IF i >= Len(video_ids) THEN st
    ELSE LET ids == batch_ids(video_ids, i)
             response == videos_list(upstream, Len(st.calls) + 1, ids)
         IN
         IF response.outcome = "ok"
         THEN video_details_loop(video_ids, upstream, i + BatchSize,
                  [result |-> st.result \o
                       [j \in 1..Len(response.items) |-> video_details(response.items[j])],
                   calls |-> Append(st.calls, ids),
                   diags |-> st.diags])
         ELSE video_details_loop(video_ids, upstream, i + BatchSize,
                  [result |-> st.result,
                   calls |-> Append(st.calls, ids),
                   diags |-> Append(st.diags, "error")])

get_video_details(video_ids, upstream) ==
    IF video_ids = <<>>
    THEN [result |-> <<>>, calls |-> <<>>, diags |-> <<>>]
    ELSE video_details_loop(video_ids, upstream, 0,
                            [result |-> <<>>, calls |-> <<>>, diags |-> <<>>])

\* the per-request limit of commentThreads().list
MaxPerPage == 100

\* maxResults of a commentThreads().list request:
\* min(100, max_results - collected_comments)
page_size_uncapped(max_results, collected) == max_results - collected

page_size(max_results, collected) == Min(MaxPerPage, max_results - collected)

\* the for loop over response['items'], left at the cap: the items it appends
taken_whole_page(items, max_results, collected) == items

taken(items, max_results, collected) ==
    SubSeq(items, 1, Min(Len(items), max_results - collected))

\* the except branches of get_comments_of_video, for what request.execute()
\* raised: an HttpError with status 403 and reason commentsDisabled, another
\* HttpError, any other exception
comments_except_all_errors(outcome, requests) ==
    [raised |-> FALSE, result |-> <<>>, requests |-> requests, diag |-> "error"]

comments_except_http_only(outcome, requests) ==
    IF outcome \in {"commentsDisabled", "HttpError"}
    THEN [raised |-> FALSE, result |-> <<>>, requests |-> requests,
          diag |-> IF outcome = "commentsDisabled" THEN "warning" ELSE "error"]
    ELSE [raised |-> TRUE, result |-> <<>>, requests |-> requests, diag |-> "none"]

comments_except(outcome, requests) ==
    IF outcome \in {"commentsDisabled", "HttpError"}
    THEN [raised |-> FALSE, result |-> <<>>, requests |-> requests,
          diag |-> IF outcome = "commentsDisabled" THEN "warning" ELSE "error"]
    ELSE [raised |-> FALSE, result |-> <<>>, requests |-> requests, diag |-> "error"]

\* the guard of the while loop of get_comments_of_video
cap_open_always(collected, max_results) == TRUE

cap_open(collected, max_results) == collected < max_results

\* one turn of the while loop of get_comments_of_video, its guard included.
\* pages[k] is the upstream's k-th page: [outcome, items, next]; the page
\* token is the number of the page before (0 for None). st: the list, the
\* token, the requests issued. The turn gives: whether the function
\* returned, what it returned, the st of the next turn
comments_turn(video_id, max_results, pages, st) ==
    IF ~cap_open(Len(st.list), max_results)
    THEN [done |-> TRUE,
          out |-> [raised |-> FALSE, result |-> st.list,
                   requests |-> st.requests, diag |-> "none"],
          st |-> st]
    ELSE LET request == [maxResults |-> page_size(max_results, Len(st.list)),
                         pageToken |-> st.token,
                         collected |-> Len(st.list)]
             response == pages[st.token + 1]
             requests == Append(st.requests, request)
         IN
         IF response.outcome # "ok"
         THEN [done |-> TRUE, out |-> comments_except(response.outcome, requests),
               st |-> st]
         ELSE LET new == taken(response.items, max_results, Len(st.list))
                  list == st.list \o
                          [j \in 1..Len(new) |-> comment_info(video_id, new[j])]
              IN
              [done |-> ~response.next,
               out |-> [raised |-> FALSE, result |-> list,
                        requests |-> requests, diag |-> "none"],
               st |-> [list |-> list, token |-> st.token + 1,
                       requests |-> requests]]

\* the while loop of get_comments_of_video
RECURSIVE comments_loop(_, _, _, _)
comments_loop(video_id, max_results, pages, st) ==
    LET turn == comments_turn(video_id, max_results, pages, st) IN
    IF turn.done THEN turn.out
    ELSE comments_loop(video_id, max_results, pages, turn.st)

get_comments_of_video(video_id, max_results, pages) ==
    comments_loop(video_id, max_results, pages,
                  [list |-> <<>>, token |-> 0, requests |-> <<>>])

\* ------------------------------------------- the gateway called on its own
\* the rows of a batch that are the last of the batch with their key
LastWrites(rows, key) ==
    {rows[i] : i \in {j \in 1..Len(rows) :
                        \A k \in (j + 1)..Len(rows) : rows[k][key] # rows[j][key]}}

\* what is kept of a call: the table written, whether the batch repeated a
\* key, its last rows per key (key names the primary key column), whether it
\* committed
GwCall(op, rows, key, ok, once) ==
    [op |-> op, repeats |-> Len(rows) > Cardinality(LastWrites(rows, key)),
     last |-> LastWrites(rows, key), ok |-> ok, once |-> once]

NoGwCall == [op |-> "none", repeats |-> FALSE, last |-> {}, ok |-> TRUE, once |-> {}]
NoApiCall == [op |-> "none"]
NoDpCall == [op |-> "none"]

\* the API client calls of one handler step: the step, the staged channel it
\* is about, whether the channel lookup gave a record, and the calls, each
\* with its argument and the number of records it returned
Fetches(by, channel, found, calls) ==
    [by |-> by, channel |-> channel, found |-> found, calls |-> calls]

Fetch(op, arg, result) == [op |-> op, arg |-> arg, n |-> Len(result)]

NoFetches == Fetches("none", "", TRUE, <<>>)

\* nothing staged, no migration running
OrchIdle ==
    /\ staging = <<>>
    /\ order = <<>>
    /\ pc = "idle"
    /\ idx = 0
    /\ step = 0
    /\ writes = <<>>
    /\ totals = [channels |-> 0, videos |-> 0, comments |-> 0]
    /\ fetches = NoFetches
    /\ fetched = <<>>
    /\ fresh = FALSE

\* nothing memoized, the clock at its start
CacheIdle ==
    /\ cache = <<>>
    /\ now = 0
    /\ youtube = [ver |-> 1, outcome |-> "ok"]

GwInit ==
    /\ channels = {}
    /\ videos = {}
    /\ comments = {}
    /\ gw = NoGwCall
    /\ api = NoApiCall
    /\ dp = NoDpCall
    /\ OrchIdle
    /\ CacheIdle

\* where the store is made to raise: nowhere, at the last row, at the commit
FailPoints(rows) == {0, Len(rows), Len(rows) + 1}

UpsertChannels ==
    \E rows \in Batches(ChannelRows) : \E failAt \in FailPoints(rows) :
        LET r == insert_channel_data(channels, rows, failAt) IN
        /\ channels' = r.table
        /\ gw' = GwCall("channels", rows, "channel_id", r.ok, {})
        /\ UNCHANGED <<videos, comments>>
        /\ UNCHANGED <<apivars, dpvars, orchvars, cachevars>>

\* the caller repeats a committed call with the identical rows
UpsertChannelsTwice ==
    \E rows \in Batches(ChannelRows) : \E failAt \in {0, 1} :
        LET first == insert_channel_data(channels, rows, 0)
            second == insert_channel_data(first.table, rows, failAt)
        IN
        /\ first.ok
        /\ channels' = second.table
        /\ gw' = GwCall("channels_twice", rows, "channel_id", second.ok, first.table)
        /\ UNCHANGED <<videos, comments>>
        /\ UNCHANGED <<apivars, dpvars, orchvars, cachevars>>

UpsertVideos ==
    \E rows \in Batches(VideoRows) : \E failAt \in FailPoints(rows) :
        LET r == insert_video_data(channels, videos, rows, failAt) IN
        /\ videos' = r.table
        /\ gw' = GwCall("videos", rows, "video_id", r.ok, {})
        /\ UNCHANGED <<channels, comments>>
        /\ UNCHANGED <<apivars, dpvars, orchvars, cachevars>>

InsertComments ==
    \E rows \in Batches(CommentRows) : \E failAt \in FailPoints(rows) :
        LET r == insert_comment_data(videos, comments, rows, failAt) IN
        /\ comments' = r.table
        /\ gw' = GwCall("comments", rows, "comment_id", r.ok, {})
        /\ UNCHANGED <<channels, videos>>
        /\ UNCHANGED <<apivars, dpvars, orchvars, cachevars>>

GwNext == UpsertChannels \/ UpsertChannelsTwice \/ UpsertVideos \/ InsertComments

GatewaySpec == GwInit /\ [][GwNext]_vars

\* ---------------------------------------- the API client called on its own
\* most video IDs handed to get_video_details
MaxIds == 120
\* most pages of one comment listing, most items on one page, largest cap
MaxPages == 3
MaxPageItems == 3
MaxCap == 4

CallOutcomes == {"ok", "HttpError", "Exception"}
PageOutcomes == {"ok", "commentsDisabled", "HttpError", "Exception"}

NumBatches(n) == (n + BatchSize - 1) \div BatchSize

\* page k of a comment listing with counts[k] items, numbered by page
CommentPage(k, count, outcome, last) ==
    [outcome |-> outcome,
     items |-> IF outcome = "ok"
               THEN [j \in 1..count |-> ThreadItem(10 * k + j)]
               ELSE <<>>,
     next |-> outcome = "ok" /\ ~last]

\* the calls the client is given, each with the upstream it will meet
VideoDetailsCalls(max_ids) ==
    {[op |-> "get_video_details", done |-> FALSE, n |-> n, gone |-> gone,
      outcomes |-> outcomes] :
        n \in 0..max_ids, gone \in {{}, {2}},
        outcomes \in [1..NumBatches(max_ids) -> CallOutcomes]}

\* a page is one of: answered with 0..MaxPageItems items, or one of the three
\* failures
PageKinds == (0..MaxPageItems) \cup {-1, -2, -3}
PageOutcome(kind) ==
    CASE kind >= 0 -> "ok" [] kind = -1 -> "commentsDisabled"
      [] kind = -2 -> "HttpError" [] kind = -3 -> "Exception"

CommentPages(np) ==
    {[k \in 1..np |-> CommentPage(k, IF kinds[k] >= 0 THEN kinds[k] ELSE 0,
                                  PageOutcome(kinds[k]), k = np)] :
        kinds \in [1..np -> PageKinds]}

\* the caps asked for: none allowed or fewer, a few, more than one request
\* may carry
Caps == {-1} \cup (0..MaxCap) \cup {MaxPerPage + 1}

CommentsCalls(caps) ==
    {[op |-> "get_comments_of_video", done |-> FALSE, video_id |-> 1,
      max_results |-> max_results, pages |-> pages] :
        max_results \in caps, pages \in UNION {CommentPages(np) : np \in 1..MaxPages}}

\* the orders in which the upstream chains the pages of a playlist: the
\* tokens of the pages after the first, none used twice
PlaylistTokens == 1..(MaxPages - 1)
TokenChains ==
    {c \in UNION {[1..n -> PlaylistTokens] : n \in 0..(MaxPages - 1)} :
        \A i, j \in DOMAIN c : c[i] = c[j] => i = j}

\* a playlist page is answered with 0..MaxPageItems items or fails
PlaylistKinds == (0..MaxPageItems) \cup {-2, -3}

\* the k-th page of the trail, kinds[k] saying how it is answered; its items
\* are numbered by page, its token is the address of the page after it
PlaylistPage(trail, kinds, k) ==
    [outcome |-> PageOutcome(kinds[k]),
     items |-> IF kinds[k] >= 0
               THEN [j \in 1..kinds[k] |-> PlaylistItem(10 * k + j)]
               ELSE <<>>,
     nextPageToken |-> IF kinds[k] >= 0 /\ k < Len(trail)
                       THEN trail[k + 1] ELSE NoToken]

PlaylistPages(trail, kinds) ==
    [t \in {trail[k] : k \in DOMAIN trail} |->
        PlaylistPage(trail, kinds, CHOOSE k \in DOMAIN trail : trail[k] = t)]

PlaylistCalls(chains) ==
    UNION {{[op |-> "get_playlist_video_ids", done |-> FALSE,
             trail |-> <<NoToken>> \o c, kinds |-> kinds] :
               kinds \in [1..(Len(c) + 1) -> PlaylistKinds]} : c \in chains}

ApiInit ==
    /\ channels = {}
    /\ videos = {}
    /\ comments = {}
    /\ gw = NoGwCall
    /\ dp = NoDpCall
    /\ OrchIdle
    /\ CacheIdle
    /\ api \in VideoDetailsCalls(MaxIds) \cup CommentsCalls(Caps)
                \cup PlaylistCalls(TokenChains)
    /\ api.op = "get_video_details" =>
           \A k \in DOMAIN api.outcomes :
               k > NumBatches(api.n) => api.outcomes[k] = "ok"

GetVideoDetails ==
    /\ api.op = "get_video_details" /\ ~api.done
    /\ LET video_ids == [j \in 1..api.n |-> j]
           upstream == [outcomes |-> api.outcomes, gone |-> api.gone]
           r == get_video_details(video_ids, upstream)
       IN api' = [op |-> "get_video_details", done |-> TRUE,
                  video_ids |-> video_ids, upstream |-> upstream,
                  result |-> r.result, calls |-> r.calls, diags |-> r.diags]
    /\ UNCHANGED <<gwvars, dpvars, orchvars, cachevars>>

GetCommentsOfVideo ==
    /\ api.op = "get_comments_of_video" /\ ~api.done
    /\ LET r == get_comments_of_video(api.video_id, api.max_results, api.pages)
       IN api' = [op |-> "get_comments_of_video", done |-> TRUE,
                  video_id |-> api.video_id, max_results |-> api.max_results,
                  pages |-> api.pages, raised |-> r.raised, result |-> r.result,
                  requests |-> r.requests, diag |-> r.diag]
    /\ UNCHANGED <<gwvars, dpvars, orchvars, cachevars>>

GetPlaylistVideoIds ==
    /\ api.op = "get_playlist_video_ids" /\ ~api.done
    /\ LET pages == PlaylistPages(api.trail, api.kinds)
           r == get_playlist_video_ids(<<"UU", "c1">>, pages)
       IN api' = [op |-> "get_playlist_video_ids", done |-> TRUE,
                  trail |-> api.trail, pages |-> pages, result |-> r.result,
                  requests |-> r.requests, diag |-> r.diag]
    /\ UNCHANGED <<gwvars, dpvars, orchvars, cachevars>>

ApiNext == GetVideoDetails \/ GetCommentsOfVideo \/ GetPlaylistVideoIds

ApiSpec == ApiInit /\ [][ApiNext]_vars

\* ----------------------------- the pagination loops of the client, by turn
\* the calls of the two paginating functions, at the head of their loops
LoopCalls(playlist_calls, comments_calls) ==
    {[op |-> "playlist_loop", done |-> FALSE, trail |-> c.trail,
      pages |-> PlaylistPages(c.trail, c.kinds), token |-> NoToken,
      st |-> [video_ids |-> <<>>, requests |-> <<>>],
      out |-> [result |-> <<>>, requests |-> <<>>, diag |-> "none"]] :
        c \in playlist_calls}
    \cup
    {[op |-> "comments_loop", done |-> FALSE, video_id |-> c.video_id,
      max_results |-> c.max_results, pages |-> c.pages,
      st |-> [list |-> <<>>, token |-> 0, requests |-> <<>>],
      out |-> [raised |-> FALSE, result |-> <<>>, requests |-> <<>>,
               diag |-> "none"]] :
        c \in comments_calls}

LoopInit ==
    /\ channels = {}
    /\ videos = {}
    /\ comments = {}
    /\ gw = NoGwCall
    /\ dp = NoDpCall
    /\ OrchIdle
    /\ CacheIdle
    /\ api \in LoopCalls(PlaylistCalls(TokenChains), CommentsCalls(Caps))

\* one turn of the while loop of get_playlist_video_ids
PlaylistTurn ==
    /\ api.op = "playlist_loop" /\ ~api.done
    /\ LET turn == playlist_turn(api.pages, api.token, api.st)
       IN api' = [api EXCEPT !.done = turn.done, !.token = turn.token,
                             !.st = turn.st, !.out = turn.out]
    /\ UNCHANGED <<gwvars, dpvars, orchvars, cachevars>>

\* one turn of the while loop of get_comments_of_video
CommentsTurn ==
    /\ api.op = "comments_loop" /\ ~api.done
    /\ LET turn == comments_turn(api.video_id, api.max_results, api.pages, api.st)
       IN api' = [api EXCEPT !.done = turn.done, !.st = turn.st,
                             !.out = turn.out]
    /\ UNCHANGED <<gwvars, dpvars, orchvars, cachevars>>

LoopNext == PlaylistTurn \/ CommentsTurn

\* a function that was called runs: every request returns or raises
LoopSpec == LoopInit /\ [][LoopNext]_vars /\ WF_vars(LoopNext)

\* ------------------------------------- the data processor called on its own
\* longest string handed to parse_duration character by character
MaxLen == 4

DurationAlphabet == {"P", "T", "D", "H", "M", "S", "1", "2", "3", "x"}
Strings(max_len) == UNION {[1..n -> DurationAlphabet] : n \in 0..max_len}

\* the encoded durations P[n]DT[n]H[n]M[n]S: each field is absent or a number
\* written in digits
FieldTexts == UNION {[1..n -> {"1", "2", "3"}] : n \in 0..(MaxLen - 3)}
DurationFields == [d : FieldTexts, h : FieldTexts, m : FieldTexts, s : FieldTexts]

Field(text, letter) == IF text = <<>> THEN <<>> ELSE text \o <<letter>>

Render(f) ==
    <<"P">> \o Field(f.d, "D") \o <<"T">> \o Field(f.h, "H")
            \o Field(f.m, "M") \o Field(f.s, "S")

DurationForms == {Render(f) : f \in DurationFields}

\* the values parse_duration is called with: strings, encoded durations,
\* encoded durations followed by one more character, and values that are not
\* strings
DurationCalls(strings) ==
    {[op |-> "parse_duration", done |-> FALSE, arg |-> arg] :
        arg \in {Str(chars) : chars \in strings \cup DurationForms
                                   \cup {form \o <<"x">> : form \in DurationForms}}
                \cup {None, [type |-> "int", value |-> 300]}}

\* the raw video records process_video_data is called with: the dicts of
\* get_video_details, with the durations a record can carry
RawDurations ==
    {None, Str(<<"P", "T", "5", "M">>), Str(<<"P", "1", "D">>), Str(<<>>),
     Str(<<"P", "T", "1", "H", "2", "M", "3", "S">>)}

RawVideos ==
    {[video_details(VideoItem(v)) EXCEPT !.duration = duration] :
        v \in {1, 2}, duration \in RawDurations}

VideoDataCalls ==
    {[op |-> "process_video_data", done |-> FALSE, arg |-> arg] :
        arg \in Batches(RawVideos)}

ProcInit ==
    /\ channels = {}
    /\ videos = {}
    /\ comments = {}
    /\ gw = NoGwCall
    /\ api = NoApiCall
    /\ OrchIdle
    /\ CacheIdle
    /\ dp \in DurationCalls(Strings(MaxLen)) \cup VideoDataCalls

ParseDuration ==
    /\ dp.op = "parse_duration" /\ ~dp.done
    /\ dp' = [op |-> "parse_duration", done |-> TRUE, arg |-> dp.arg,
              result |-> parse_duration(dp.arg)]
    /\ UNCHANGED <<gwvars, apivars, orchvars, cachevars>>

ProcessVideoData ==
    /\ dp.op = "process_video_data" /\ ~dp.done
    /\ dp' = [op |-> "process_video_data", done |-> TRUE, arg |-> dp.arg,
              result |-> process_video_data(dp.arg)]
    /\ UNCHANGED <<gwvars, apivars, orchvars, cachevars>>

ProcNext == ParseDuration \/ ProcessVideoData

ProcSpec == ProcInit /\ [][ProcNext]_vars

\* ------------------------------------ the API client behind st.cache_data
\* @st.cache_data(ttl=3600): the seconds an entry is served for
TTL == 3600

\* the hours the clock runs for
MaxHours == 1

\* the instants a call is made at: the last second of an hour and the first
\* of the next
Instants == {t \in {h * TTL + o : h \in 0..MaxHours, o \in {-1, 0}} : t >= 0}

\* YouTube holds channel c1, in snapshot ver, and video 1 with two comments,
\* numbered by ver; it answers or fails
YouTubeStates ==
    {[ver |-> ver, outcome |-> "ok"] : ver \in {1, 2}}
    \cup {[ver |-> 1, outcome |-> "HttpError"]}

\* the calls made through the cache: the function and its arguments after
\* _self
CachedCalls ==
    {[f |-> "get_channel_details", args |-> <<id>>] : id \in {"c1", "c9"}}
    \cup {[f |-> "get_comments_of_video", args |-> <<1, 100>>]}

\* the body of the decorated function, run against YouTube as it is
upstream_call(f, args, yt) ==
    IF f = "get_channel_details"
    THEN get_channel_details(args[1],
             [outcome |-> yt.outcome,
              items |-> IF args[1] = "c1" /\ yt.outcome = "ok"
                        THEN <<ChannelItem("c1", yt.ver, 2)>> ELSE <<>>])
    ELSE get_comments_of_video(args[1], args[2],
             <<CommentPage(yt.ver, 2, yt.outcome, TRUE)>>).result

\* the key of an entry: the function and the values of its arguments; _self
\* is left out of it
cache_key(f, args) == <<f>> \o args

\* an entry is served while it is younger than ttl
cache_hit_any_age(entries, call, time) == call \in DOMAIN entries

cache_hit(entries, call, time) ==
    call \in DOMAIN entries /\ time - entries[call].at < TTL

\* the decorated function: the memoized value on a hit; otherwise the body
\* runs and whatever it returns, None and [] included, is stored
cached(entries, time, f, args, yt) ==
    LET call == cache_key(f, args) IN
    IF cache_hit(entries, call, time)
    THEN [result |-> entries[call].value, issued |-> FALSE, entries |-> entries]
    ELSE LET r == upstream_call(f, args, yt) IN
         [result |-> r, issued |-> TRUE,
          entries |-> (call :> [at |-> time, call |-> [f |-> f, args |-> args],
                                value |-> r]) @@ entries]

CacheInit ==
    /\ channels = {}
    /\ videos = {}
    /\ comments = {}
    /\ gw = NoGwCall
    /\ api = NoApiCall
    /\ dp = NoDpCall
    /\ OrchIdle
    /\ CacheIdle

\* one call through the cache; prior: the entries earlier calls of this
\* function with these arguments left
CachedCall ==
    /\ \E c \in CachedCalls :
           LET r == cached(cache, now, c.f, c.args, youtube) IN
           /\ api' = [op |-> "cached", f |-> c.f, args |-> c.args, at |-> now,
                      youtube |-> youtube,
                      prior |-> {cache[k] : k \in {j \in DOMAIN cache :
                                                       cache[j].call = c}},
                      result |-> r.result, issued |-> r.issued]
           /\ cache' = r.entries
    /\ UNCHANGED <<now, youtube, gwvars, dpvars, orchvars>>

\* time passes
Tick ==
    /\ \E t \in Instants : t > now /\ now' = t
    /\ UNCHANGED <<cache, youtube, gwvars, apivars, dpvars, orchvars>>

\* YouTube changes, or starts or stops failing
YouTubeChanges ==
    /\ \E yt \in YouTubeStates : yt # youtube /\ youtube' = yt
    /\ UNCHANGED <<cache, now, gwvars, apivars, dpvars, orchvars>>

CacheNext == CachedCall \/ Tick \/ YouTubeChanges

CacheSpec == CacheInit /\ [][CacheNext]_vars

\* ------------------------------------------------------------ orchestration
\* the upstream the application meets: channel c1 with two uploads, video 1
\* with NumComments comments and video 2 with comments disabled; channel c2
\* with one upload, video 3, with comments disabled; no other channel
NumComments == 3

KnownChannels == {"c1", "c2"}
InputIds == {"c1", "c2", "c9"}
Snapshots(id) == IF id = "c1" THEN {1, 2} ELSE {1}
Uploads(id) == IF id = "c1" THEN <<1, 2>> ELSE IF id = "c2" THEN <<3>> ELSE <<>>
CommentsDisabledOn == {2, 3}

\* how channels().list goes: answered, failed, or answered with an item that
\* lacks the parts asked for
LookupOutcomes == CallOutcomes \cup {"malformed"}

ChannelAnswer(id, outcome, ver) ==
    [outcome |-> IF outcome = "malformed" THEN "ok" ELSE outcome,
     items |-> IF id \notin KnownChannels THEN <<>>
               ELSE IF outcome = "ok" THEN <<ChannelItem(id, ver, Len(Uploads(id)))>>
               ELSE IF outcome = "malformed" THEN <<[id |-> id]>>
               ELSE <<>>]

\* the uploads playlist fits one page
PlaylistAnswer(playlist_id, outcome) ==
    NoToken :> [outcome |-> outcome,
                items |-> IF outcome = "ok"
                          THEN [j \in 1..Len(Uploads(playlist_id[2])) |->
                                   PlaylistItem(Uploads(playlist_id[2])[j])]
                          ELSE <<>>,
                nextPageToken |-> NoToken]

\* outcomes: how the comment listing of each video with comments goes
CommentsAnswer(v, outcomes) ==
    IF v \in CommentsDisabledOn
    THEN <<[outcome |-> "commentsDisabled", items |-> <<>>, next |-> FALSE]>>
    ELSE <<[outcome |-> outcomes[v],
            items |-> IF outcomes[v] = "ok"
                      THEN [j \in 1..NumComments |-> ThreadItem(10 * v + j)]
                      ELSE <<>>,
            next |-> FALSE]>>

FetchOutcomes == {"ok", "HttpError"}
CommentOutcomes == [{1, 2, 3} \ CommentsDisabledOn -> FetchOutcomes]

AllAnswered == [v \in {1, 2, 3} \ CommentsDisabledOn |-> "ok"]

\* max_results=100 of get_comments_of_video
DefaultMaxResults == 100

\* for ... in video_details: comments.extend(get_comments_of_video(video_id)),
\* from video j on
comments_of_videos_keeps_last(video_details_list, j, outcomes) ==
    IF video_details_list = <<>> THEN <<>>
    ELSE LET v == video_details_list[Len(video_details_list)].video_id IN
         get_comments_of_video(v, DefaultMaxResults,
                               CommentsAnswer(v, outcomes)).result

RECURSIVE comments_of_videos(_, _, _)
comments_of_videos(video_details_list, j, outcomes) ==
    IF j > Len(video_details_list) THEN <<>>
    ELSE LET v == video_details_list[j].video_id IN
         get_comments_of_video(v, DefaultMaxResults,
                               CommentsAnswer(v, outcomes)).result
         \o comments_of_videos(video_details_list, j + 1, outcomes)

\* the get_comments_of_video calls of that loop
comment_fetches(video_details_list, outcomes) ==
    [j \in 1..Len(video_details_list) |->
        LET v == video_details_list[j].video_id IN
        Fetch("get_comments_of_video", v,
              get_comments_of_video(v, DefaultMaxResults,
                                    CommentsAnswer(v, outcomes)).result)]

\* if channel_info: the channel is staged with empty lists when it is new,
\* else only its channel_info is replaced
stage_channel_resets(stg, id, channel_info) ==
    IF channel_info = <<>> THEN stg
    ELSE (id :> [channel_info |-> channel_info[1], videos |-> <<>>,
                 comments |-> <<>>]) @@ stg

stage_channel_unchecked(stg, id, channel_info) ==
    LET info == IF channel_info = <<>>
                THEN [channel_id |-> id, channel_name |-> <<>>, subscribers |-> 0,
                      total_videos |-> 0, uploads_playlist_id |-> <<"UU", id>>]
                ELSE channel_info[1]
    IN IF id \notin DOMAIN stg
       THEN (id :> [channel_info |-> info, videos |-> <<>>, comments |-> <<>>]) @@ stg
       ELSE [stg EXCEPT ![id].channel_info = info]

stage_channel(stg, id, channel_info) ==
    IF channel_info = <<>> THEN stg
    ELSE IF id \notin DOMAIN stg
    THEN (id :> [channel_info |-> channel_info[1], videos |-> <<>>,
                 comments |-> <<>>]) @@ stg
    ELSE [stg EXCEPT ![id].channel_info = channel_info[1]]

NeverFetched == [videos |-> FALSE, comments |-> FALSE]

\* an input that is read only when cond holds: one of choices then, and
\* otherwise the one value unread
ReadIf(cond, choices, unread) == IF cond THEN choices ELSE {unread}

\* the "Fetch Channel Data" button with its two checkboxes. The first
\* checkbox is read when the lookup gave a record, the second when the
\* playlist gave video IDs
Collect ==
    /\ pc = "idle"
    /\ \E id \in InputIds : \E outcome \in LookupOutcomes :
       \E ver \in ReadIf(outcome = "ok", Snapshots(id), 1) :
       \E fetch_videos \in
              ReadIf(get_channel_details(id, ChannelAnswer(id, outcome, ver)) # <<>>,
                     BOOLEAN, FALSE) :
       \E po \in ReadIf(fetch_videos, FetchOutcomes, "ok") :
       \E vo \in ReadIf(fetch_videos /\ po = "ok", FetchOutcomes, "ok") :
       \E fetch_comments \in ReadIf(fetch_videos /\ po = "ok", BOOLEAN, FALSE) :
       \E co \in ReadIf(fetch_comments /\ vo = "ok", CommentOutcomes,
                        AllAnswered) :
        LET channel_info == get_channel_details(id, ChannelAnswer(id, outcome, ver))
            found == channel_info # <<>>
            staged == stage_channel(staging, id, channel_info)
            info == channel_info[1]
            playlist == get_playlist_video_ids(info.uploads_playlist_id,
                            PlaylistAnswer(info.uploads_playlist_id, po))
            video_ids == playlist.result
            details == get_video_details(video_ids,
                           [outcomes |-> <<vo>>, gone |-> {}]).result
            all_comments == comments_of_videos(details, 1, co)
            ran_videos == found /\ fetch_videos
            ran_comments == ran_videos /\ video_ids # <<>> /\ fetch_comments
            videos_done == ran_videos /\ po = "ok" /\ vo = "ok"
            comments_done ==
                /\ ran_comments /\ videos_done
                /\ \A j \in 1..Len(details) :
                      details[j].video_id \in DOMAIN co => co[details[j].video_id] = "ok"
            was == IF id \in DOMAIN fetched THEN fetched[id] ELSE NeverFetched
        IN
        /\ order' = IF id \in DOMAIN staged \ DOMAIN staging
                    THEN Append(order, id) ELSE order
        /\ staging' =
              IF ran_videos /\ video_ids # <<>>
              THEN IF fetch_comments
                   THEN [staged EXCEPT ![id].videos = details,
                                       ![id].comments = all_comments]
                   ELSE [staged EXCEPT ![id].videos = details]
              ELSE staged
        /\ fetches' = Fetches("collect", id, found,
              <<Fetch("get_channel_details", id, channel_info)>> \o
              (IF ran_videos
               THEN <<Fetch("get_playlist_video_ids", info.uploads_playlist_id,
                            video_ids)>> \o
                    (IF video_ids # <<>>
                     THEN <<Fetch("get_video_details", video_ids, details)>> \o
                          (IF fetch_comments
                           THEN comment_fetches(details, co) ELSE <<>>)
                     ELSE <<>>)
               ELSE <<>>))
        /\ fetched' =
              IF id \in DOMAIN staged
              THEN (id :> [videos |-> IF ran_videos /\ video_ids # <<>>
                                          THEN videos_done ELSE was.videos,
                           comments |-> IF ran_comments THEN comments_done
                                        ELSE was.comments]) @@ fetched
              ELSE fetched
    /\ UNCHANGED <<channels, videos, comments, pc, idx, step, writes, totals, fresh>>
    /\ UNCHANGED <<gw, api, dp, cachevars>>

\* the three numbered steps of the body of the migrate loop, in their order
migrate_steps_videos_first == <<"videos", "channel", "comments">>

migrate_steps == <<"channel", "videos", "comments">>

NoTotals == [channels |-> 0, videos |-> 0, comments |-> 0]

\* the "Migrate All Collected Data to SQL Database" button, shown while
\* something is staged: the three counters are set to 0 and the loop entered
LoadStart ==
    /\ pc = "idle"
    /\ DOMAIN staging # {}
    /\ pc' = "load"
    /\ idx' = 1
    /\ step' = 1
    /\ writes' = <<>>
    /\ totals' = NoTotals
    /\ fetches' = Fetches("load_start", "", TRUE, <<>>)
    /\ fresh' = (channels = {} /\ videos = {} /\ comments = {})
    /\ UNCHANGED <<channels, videos, comments, staging, order, fetched>>
    /\ UNCHANGED <<gw, api, dp, cachevars>>

\* to the next step of the loop body, the next staged channel, or out of the
\* loop; a gateway call that rolled back returns like one that committed
AdvanceUnlessFailed ==
    IF writes' # <<>> /\ ~writes'[Len(writes')].ok
    THEN /\ pc' = "finish"
         /\ UNCHANGED <<idx, step>>
    ELSE IF step < Len(migrate_steps)
    THEN /\ step' = step + 1
         /\ UNCHANGED <<pc, idx>>
    ELSE IF idx < Len(order)
    THEN /\ idx' = idx + 1
         /\ step' = 1
         /\ UNCHANGED pc
    ELSE /\ pc' = "finish"
         /\ UNCHANGED <<idx, step>>

Advance ==
    IF step < Len(migrate_steps)
    THEN /\ step' = step + 1
         /\ UNCHANGED <<pc, idx>>
    ELSE IF idx < Len(order)
    THEN /\ idx' = idx + 1
         /\ step' = 1
         /\ UNCHANGED pc
    ELSE /\ pc' = "finish"
         /\ UNCHANGED <<idx, step>>

\* one db_manager.insert_* call of the loop: the staged channel, the table,
\* the rows of the DataFrame, whether the batch committed
Write(kind, ok, rows) ==
    [channel |-> order[idx], kind |-> kind, ok |-> ok, rows |-> Len(rows)]

\* 1. process and insert channel data
LoadChannel ==
    /\ pc = "load"
    /\ migrate_steps[step] = "channel"
    /\ LET data == staging[order[idx]]
           df_channel == process_channel_data(<<data.channel_info>>)
       IN
       IF df_channel # <<>>
       THEN \E failAt \in FailPoints(df_channel) :
               LET r == insert_channel_data(channels, df_channel, failAt) IN
               /\ channels' = r.table
               /\ writes' = Append(writes, Write("channel", r.ok, df_channel))
               /\ totals' = [totals EXCEPT !.channels = @ + Len(df_channel)]
       ELSE UNCHANGED <<channels, writes, totals>>
    /\ fetches' = Fetches("load_channel", order[idx], TRUE, <<>>)
    /\ Advance
    /\ UNCHANGED <<videos, comments, staging, order, fetched, fresh>>
    /\ UNCHANGED <<gw, api, dp, cachevars>>

\* 2. fetch the videos if none is staged, process and insert video data
LoadVideos ==
    /\ pc = "load"
    /\ migrate_steps[step] = "videos"
    /\ \E po \in ReadIf(staging[order[idx]].videos = <<>>, FetchOutcomes, "ok") :
       \E vo \in ReadIf(staging[order[idx]].videos = <<>> /\ po = "ok",
                        FetchOutcomes, "ok") :
        LET data == staging[order[idx]]
            lazy == data.videos = <<>>
            playlist_id == data.channel_info.uploads_playlist_id
            video_ids == get_playlist_video_ids(playlist_id,
                             PlaylistAnswer(playlist_id, po)).result
            details == get_video_details(video_ids,
                           [outcomes |-> <<vo>>, gone |-> {}]).result
            current_videos_data == IF lazy THEN details ELSE data.videos
            df_videos == process_video_data(current_videos_data)
        IN
        /\ staging' = [staging EXCEPT ![order[idx]].videos = current_videos_data]
        /\ fetches' = Fetches("load_videos", order[idx], TRUE,
              IF lazy
              THEN <<Fetch("get_playlist_video_ids", playlist_id, video_ids),
                     Fetch("get_video_details", video_ids, details)>>
              ELSE <<>>)
        /\ IF df_videos # <<>>
           THEN \E failAt \in FailPoints(df_videos) :
                   LET r == insert_video_data(channels, videos, df_videos, failAt) IN
                   /\ videos' = r.table
                   /\ writes' = Append(writes, Write("videos", r.ok, df_videos))
                   /\ totals' = [totals EXCEPT !.videos = @ + Len(df_videos)]
           ELSE UNCHANGED <<videos, writes, totals>>
    /\ Advance
    /\ UNCHANGED <<channels, comments, order, fetched, fresh>>
    /\ UNCHANGED <<gw, api, dp, cachevars>>

\* 3. fetch the comments if none is staged and there are videos, process and
\* insert comment data
LoadComments ==
    /\ pc = "load"
    /\ migrate_steps[step] = "comments"
    /\ \E co \in ReadIf(staging[order[idx]].comments = <<>>, CommentOutcomes,
                        AllAnswered) :
        LET data == staging[order[idx]]
            current_videos_data == data.videos
            lazy == data.comments = <<>> /\ current_videos_data # <<>>
            current_comments_data ==
                IF lazy
                THEN comments_of_videos(current_videos_data, 1, co)
                ELSE data.comments
            df_comments == process_comment_data(current_comments_data)
        IN
        /\ staging' = [staging EXCEPT ![order[idx]].comments = current_comments_data]
        /\ fetches' = Fetches("load_comments", order[idx], TRUE,
              IF lazy THEN comment_fetches(current_videos_data, co) ELSE <<>>)
        /\ IF df_comments # <<>>
           THEN \E failAt \in FailPoints(df_comments) :
                   LET r == insert_comment_data(videos, comments, df_comments, failAt) IN
                   /\ comments' = r.table
                   /\ writes' = Append(writes, Write("comments", r.ok, df_comments))
                   /\ totals' = [totals EXCEPT !.comments = @ + Len(df_comments)]
           ELSE UNCHANGED <<comments, writes, totals>>
    /\ Advance
    /\ UNCHANGED <<channels, videos, order, fetched, fresh>>
    /\ UNCHANGED <<gw, api, dp, cachevars>>

\* what is shown after the loop: st.success and the three st.info lines
migration_report ==
    [message |-> "Migration complete!", channels |-> totals.channels,
     videos |-> totals.videos, comments |-> totals.comments]

\* after the loop: the report is shown and the staged data is cleared
LoadFinish ==
    /\ pc = "finish"
    /\ staging' = <<>>
    /\ order' = <<>>
    /\ pc' = "idle"
    /\ idx' = 0
    /\ step' = 0
    /\ writes' = <<>>
    /\ totals' = NoTotals
    /\ fetches' = Fetches("load_finish", "", TRUE, <<>>)
    /\ fetched' = <<>>
    /\ fresh' = FALSE
    /\ UNCHANGED <<channels, videos, comments>>
    /\ UNCHANGED <<gw, api, dp, cachevars>>

Init ==
    /\ channels = {}
    /\ videos = {}
    /\ comments = {}
    /\ gw = NoGwCall
    /\ api = NoApiCall
    /\ dp = NoDpCall
    /\ OrchIdle
    /\ CacheIdle

Next ==
    \/ Collect
    \/ LoadStart
    \/ LoadChannel
    \/ LoadVideos
    \/ LoadComments
    \/ LoadFinish

Spec == Init /\ [][Next]_vars

\* ================================================================== claims
\* C3: after any sequence of gateway calls, batches repeating an ID and failed
\* batches included, each table holds at most one row per primary key.
PrimaryKeysUnique ==
    /\ \A r \in channels : existing_channel(channels, r.channel_id) = {r}
    /\ \A r \in videos : existing_video(videos, r.video_id) = {r}
    /\ \A r \in comments : existing_comment(comments, r.comment_id) = {r}

\* a committed batch that carried the same channel ID twice
PrimaryKeysUniqueWitness ==
    /\ gw.op = "channels"
    /\ gw.ok
    /\ gw.repeats
    /\ gw.last \subseteq channels

\* C4: upsertChannels applied twice with the same rows leaves the warehouse as
\* applying it once did, with exactly one row per channel ID of the batch,
\* equal to the last row written for that ID.
UpsertChannelsIdempotent ==
    gw.op = "channels_twice" =>
        /\ channels = gw.once
        /\ \A row \in gw.last : existing_channel(channels, row.channel_id) = {row}

\* the repeated call committed and overwrote a stored row
UpsertChannelsIdempotentWitness ==
    /\ gw.op = "channels_twice"
    /\ gw.ok
    /\ gw.repeats
    /\ MkChannel("c1", 2) \in gw.last
    /\ MkChannel("c2", 1) \in channels

\* C5: insertComments never changes a stored comment: every stored row is
\* still stored, unchanged, after any call, and stays the only row of its ID.
StoredCommentsUnchanged ==
    [][\A r \in comments :
          existing_comment(comments', r.comment_id) = {r}]_vars

\* a committed insertComments that carried a stored ID with another payload
StoredCommentsUnchangedWitness ==
    /\ gw.op = "comments"
    /\ gw.ok
    /\ \E row \in gw.last : \E r \in comments :
          r.comment_id = row.comment_id /\ r # row

\* C6: a gateway call that fails leaves the warehouse as it was before the
\* call.
FailedBatchChangesNothing ==
    [][(gw'.op \in {"channels", "videos", "comments"} /\ ~gw'.ok)
          => UNCHANGED <<channels, videos, comments>>]_vars

\* a video batch failed after a row that could be stored, which is not stored
FailedBatchChangesNothingWitness ==
    /\ gw.op = "videos"
    /\ ~gw.ok
    /\ Cardinality(gw.last) >= 2
    /\ \E row \in gw.last :
          /\ existing_video(videos, row.video_id) = {}
          /\ existing_channel(channels, row.channel_id) # {}

\* the least k with 50 * k >= n
CeilDiv50(n) == CHOOSE k \in 0..n : 50 * k >= n /\ 50 * (k - 1) < n

\* the records of the first k calls, those that were answered
RECURSIVE RecordsOfAnsweredCalls(_, _, _)
RecordsOfAnsweredCalls(calls, upstream, k) ==
    IF k = 0 THEN <<>>
    ELSE LET answer == videos_list(upstream, k, calls[k]) IN
         RecordsOfAnsweredCalls(calls, upstream, k - 1) \o
         (IF answer.outcome = "ok"
          THEN [j \in 1..Len(answer.items) |-> video_details(answer.items[j])]
          ELSE <<>>)

\* C8: get_video_details on n IDs issues ceil(n/50) calls, the k-th carrying
\* the k-th slice of at most 50 IDs in input order; a failing call does not
\* stop the later ones and the result is the records of the calls that
\* succeeded, in call order (120 IDs: calls of 50, 50 and 20 IDs, and 50 + 20
\* records when only the second fails).
VideoDetailsBatching ==
    (api.op = "get_video_details" /\ api.done) =>
        LET n == Len(api.video_ids) IN
        /\ Len(api.calls) = CeilDiv50(n)
        /\ \A k \in 1..Len(api.calls) :
              LET size == IF n - 50 * (k - 1) < 50 THEN n - 50 * (k - 1) ELSE 50 IN
              api.calls[k] = [j \in 1..size |-> api.video_ids[50 * (k - 1) + j]]
        /\ api.result = RecordsOfAnsweredCalls(api.calls, api.upstream, Len(api.calls))
        /\ n = 120 =>
              /\ <<Len(api.calls[1]), Len(api.calls[2]), Len(api.calls[3])>> = <<50, 50, 20>>
              /\ (api.upstream.outcomes = <<"ok", "HttpError", "ok">> /\ api.upstream.gone = {})
                    => /\ Len(api.result) = 70
                       /\ \A j \in 1..50 : api.result[j].video_id = j
                       /\ \A j \in 51..70 : api.result[j].video_id = j + 50

\* 120 IDs, the second call failed, the third was still made and answered
VideoDetailsBatchingWitness ==
    /\ api.op = "get_video_details" /\ api.done
    /\ Len(api.video_ids) = 120
    /\ api.upstream.outcomes = <<"ok", "HttpError", "ok">>
    /\ api.upstream.gone = {}
    /\ Len(api.calls) = 3
    /\ Len(api.result) = 70

\* C9: get_comments_of_video returns at most max_results records, none for
\* a max_results below zero, and issues no page request once the number
\* accumulated has reached max_results.
CommentCap ==
    (api.op = "get_comments_of_video" /\ api.done) =>
        /\ Len(api.result) <= (IF api.max_results > 0 THEN api.max_results ELSE 0)
        /\ \A i \in 1..Len(api.requests) :
              api.requests[i].collected < api.max_results

\* the cap was reached inside a page that carried a continuation token and
\* more items than the cap left room for; the next page was not requested
CommentCapWitness ==
    /\ api.op = "get_comments_of_video" /\ api.done
    /\ Len(api.result) = api.max_results
    /\ Len(api.requests) = 2
    /\ Len(api.pages) = 3
    /\ api.pages[2].next
    /\ Len(api.pages[1].items) + Len(api.pages[2].items) > api.max_results

\* C10: get_comments_of_video never raises; when a page request fails the
\* result is empty, with a warning for disabled comments and an error for
\* every other failure.
CommentsNeverRaise ==
    (api.op = "get_comments_of_video" /\ api.done) =>
        LET failed == {i \in 1..Len(api.requests) : api.pages[i].outcome # "ok"} IN
        /\ ~api.raised
        /\ api.result \in Seq({comment_info(api.video_id, ThreadItem(c)) : c \in 11..(10 * MaxPages + MaxPageItems)})
        /\ \A i \in failed :
              /\ api.result = <<>>
              /\ api.diag = IF api.pages[i].outcome = "commentsDisabled"
                            THEN "warning" ELSE "error"
        /\ failed = {} => api.diag = "none"

\* the second page request met disabled comments after a first page of items
CommentsNeverRaiseWitness ==
    /\ api.op = "get_comments_of_video" /\ api.done
    /\ Len(api.requests) = 2
    /\ Len(api.pages[1].items) > 0
    /\ api.pages[2].outcome = "commentsDisabled"
    /\ api.diag = "warning"
    /\ api.result = <<>>

\* a write batch of the running migration rolled back
SomeWriteRolledBack == \E i \in 1..Len(writes) : ~writes[i].ok

\* C1: in loadAll the staging collection is emptied only if every write batch
\* of every staged channel committed; after a run in which a batch rolled
\* back, every staged channel is still staged.
StagingKeptAfterFailedLoad ==
    [][(pc = "finish" /\ pc' = "idle" /\ SomeWriteRolledBack)
          => DOMAIN staging \subseteq DOMAIN staging']_vars

\* C2: in every reachable warehouse state every stored video's channel_id is
\* the ID of a stored channel and every stored comment's video_id is the ID of
\* a stored video.
ReferentialIntegrity ==
    /\ \A v \in videos : existing_channel(channels, v.channel_id) # {}
    /\ \A c \in comments : existing_video(videos, c.video_id) # {}

\* inside a migration the channel write of c1 rolled back, the video write
\* that followed failed on the foreign key, and c2 is stored with its video
ReferentialIntegrityWitness ==
    /\ \E i \in 1..Len(writes) :
          writes[i].channel = "c1" /\ writes[i].kind = "channel" /\ ~writes[i].ok
    /\ \E i \in 1..Len(writes) :
          writes[i].channel = "c1" /\ writes[i].kind = "videos" /\ ~writes[i].ok
    /\ existing_channel(channels, "c1") = {}
    /\ existing_video(videos, 3) # {}

\* the place of a kind of write in the hierarchy channel, video, comment
Rank(kind) == CASE kind = "channel" -> 1 [] kind = "videos" -> 2 [] kind = "comments" -> 3

\* C7: within one loadAll run, the channel write of a staged channel is issued
\* before every write of its videos, and every write of its videos before
\* every write of its comments.
WritesInOrder ==
    /\ \A i, j \in 1..Len(writes) :
          (writes[i].channel = writes[j].channel /\ Rank(writes[i].kind) < Rank(writes[j].kind))
              => i < j
    /\ \A j \in 1..Len(writes) :
          writes[j].kind # "channel" =>
              \E i \in 1..(j - 1) :
                  writes[i].channel = writes[j].channel /\ writes[i].kind = "channel"

\* a run that wrote the channel, the videos and the comments of c1
WritesInOrderWitness ==
    /\ pc = "finish"
    /\ \A kind \in {"channel", "videos", "comments"} :
          \E i \in 1..Len(writes) : writes[i].channel = "c1" /\ writes[i].kind = kind
    /\ \E i \in 1..Len(writes) : writes[i].channel = "c2"

\* the video IDs on the first k pages of a playlist, in the upstream's order
RECURSIVE IdsOfPages(_, _, _)
IdsOfPages(pages, trail, k) ==
    IF k = 0 THEN <<>>
    ELSE IdsOfPages(pages, trail, k - 1) \o
         [j \in 1..Len(pages[trail[k]].items) |->
             pages[trail[k]].items[j].contentDetails.videoId]

\* the comment records of the items on the first k pages of a listing
RECURSIVE RecordsOfPages(_, _, _)
RecordsOfPages(video_id, pages, k) ==
    IF k = 0 THEN <<>>
    ELSE RecordsOfPages(video_id, pages, k - 1) \o
         [j \in 1..Len(pages[k].items) |-> comment_info(video_id, pages[k].items[j])]

TransientFailures == {"HttpError", "Exception"}

\* C11 as stated: a call that fails transiently after earlier pages or
\* batches succeeded still returns what was accumulated, for
\* get_playlist_video_ids and get_comments_of_video failing on a page k > 1
\* and for get_video_details failing on a later batch.
PartialResultsReturned ==
    /\ (api.op = "get_playlist_video_ids" /\ api.done) =>
          LET n == Len(api.requests) IN
          (n > 1 /\ api.pages[api.requests[n].pageToken].outcome \in TransientFailures)
              => api.result = IdsOfPages(api.pages, api.trail, n - 1)
    /\ (api.op = "get_comments_of_video" /\ api.done) =>
          LET n == Len(api.requests) IN
          (n > 1 /\ api.pages[n].outcome \in TransientFailures)
              => api.result = RecordsOfPages(api.video_id, api.pages, n - 1)
    /\ (api.op = "get_video_details" /\ api.done) =>
          api.result = RecordsOfAnsweredCalls(api.calls, api.upstream, Len(api.calls))

\* C11 amended: only get_video_details returns partial results, the records
\* of every batch that was answered whichever batches failed;
\* get_playlist_video_ids and get_comments_of_video return the empty
\* sequence when a page request fails, on whichever page, and drop what the
\* earlier pages gave.
PartialResultsOfBatchesOnly ==
    /\ (api.op = "get_playlist_video_ids" /\ api.done) =>
          LET n == Len(api.requests) IN
          api.pages[api.requests[n].pageToken].outcome \in TransientFailures
              => api.result = <<>>
    /\ (api.op = "get_comments_of_video" /\ api.done) =>
          LET n == Len(api.requests) IN
          (n > 0 /\ api.pages[n].outcome \in TransientFailures)
              => api.result = <<>>
    /\ (api.op = "get_video_details" /\ api.done) =>
          api.result = RecordsOfAnsweredCalls(api.calls, api.upstream, Len(api.calls))

\* the playlist walk failed on its third page after two pages with items
PartialResultsOfBatchesOnlyWitness ==
    /\ api.op = "get_playlist_video_ids" /\ api.done
    /\ Len(api.requests) = 3
    /\ api.pages[api.requests[3].pageToken].outcome = "HttpError"
    /\ Len(IdsOfPages(api.pages, api.trail, 2)) >= 2
    /\ api.result = <<>>

\* C20: when no upstream call fails, get_playlist_video_ids returns the video
\* IDs of every page of the playlist, in page order and item order; the first
\* request carries no token, each later one the token the page before
\* returned, and the page without a token is the last one requested.
PlaylistWalk ==
    (/\ api.op = "get_playlist_video_ids" /\ api.done
     /\ \A k \in DOMAIN api.trail : api.pages[api.trail[k]].outcome = "ok") =>
        LET n == Len(api.requests) IN
        /\ api.result = IdsOfPages(api.pages, api.trail, Len(api.trail))
        /\ n = Len(api.trail)
        /\ api.requests[1].pageToken = NoToken
        /\ \A k \in 2..n :
              api.requests[k].pageToken = api.pages[api.requests[k - 1].pageToken].nextPageToken
        /\ \A k \in 1..n :
              (api.pages[api.requests[k].pageToken].nextPageToken = NoToken) <=> (k = n)
        /\ api.diag = "none"

\* three pages served under tokens that are not in numeric order, each with
\* items
PlaylistWalkWitness ==
    /\ api.op = "get_playlist_video_ids" /\ api.done
    /\ api.trail = <<NoToken, 2, 1>>
    /\ \A k \in 1..3 : Len(api.pages[api.trail[k]].items) >= 1
    /\ Len(api.result) >= 3
    /\ api.result[1] = 11

\* the number a field of an encoded duration writes, 0 for an absent field
RECURSIVE Number(_)
Number(text) ==
    IF text = <<>> THEN 0
    ELSE 10 * Number(SubSeq(text, 1, Len(text) - 1))
         + (CASE text[Len(text)] = "1" -> 1 [] text[Len(text)] = "2" -> 2
              [] text[Len(text)] = "3" -> 3)

FormValue(f) ==
    Number(f.d) * 86400 + Number(f.h) * 3600 + Number(f.m) * 60 + Number(f.s)

\* C15: parse_duration returns days*86400 + hours*3600 + minutes*60 + seconds
\* for every encoded duration P[n]DT[n]H[n]M[n]S, whichever fields are
\* present, and 0 for every value that is not a string and every string that
\* is not of that form.
ParseDurationExact ==
    (dp.op = "parse_duration" /\ dp.done) =>
        IF dp.arg.type = "str" /\ dp.arg.chars \in DurationForms
        THEN dp.result =
                 FormValue(CHOOSE f \in DurationFields : Render(f) = dp.arg.chars)
        ELSE dp.result = 0

\* C16: process_video_data returns no row for an empty list and otherwise one
\* row per record, in order: duration_seconds is the parsed duration, a
\* natural number, 0 for a missing or unparseable duration; there is no
\* duration field; published_date is the calendar date; every other field is
\* the record's.
VideoRowsTransformed ==
    (dp.op = "process_video_data" /\ dp.done) =>
        /\ Len(dp.result) = Len(dp.arg)
        /\ \A j \in 1..Len(dp.arg) :
              LET d == dp.arg[j]
                  row == dp.result[j]
              IN
              /\ DOMAIN row = (DOMAIN d \ {"duration"}) \cup {"duration_seconds"}
              /\ row.duration_seconds \in Nat
              /\ d.duration.type # "str" => row.duration_seconds = 0
              /\ d.duration = Str(<<"P", "1", "D">>) => row.duration_seconds = 0
              /\ d.duration = Str(<<>>) => row.duration_seconds = 0
              /\ d.duration = Str(<<"P", "T", "5", "M">>) => row.duration_seconds = 300
              /\ d.duration = Str(<<"P", "T", "1", "H", "2", "M", "3", "S">>)
                    => row.duration_seconds = 3723
              /\ row.published_date = "2023-01-01"
              /\ d.published_date = <<"2023-01-01", "T00:00:00Z">>
              /\ \A field \in DOMAIN d \ {"duration", "published_date"} :
                    row[field] = d[field]

\* two records, the first with an encoded duration and the second without one
VideoRowsTransformedWitness ==
    /\ dp.op = "process_video_data" /\ dp.done
    /\ Len(dp.arg) = 2
    /\ dp.arg[1].duration = Str(<<"P", "T", "5", "M">>)
    /\ dp.arg[2].duration = None
    /\ dp.result[1].duration_seconds = 300
    /\ dp.result[2].duration_seconds = 0
    /\ dp.result[1].video_id # dp.result[2].video_id

\* C12: a collect whose channel lookup gives no record (no such channel, an
\* upstream error, a malformed answer) leaves the staging collection as it
\* was, and issues no call after the lookup.
FailedLookupChangesNothing ==
    [][(fetches'.by = "collect" /\ ~fetches'.found) =>
          /\ UNCHANGED <<staging, order>>
          /\ Len(fetches'.calls) = 1
          /\ fetches'.calls[1].op = "get_channel_details"]_vars

\* the lookup of c1 failed while c1 was staged with videos and comments
FailedLookupChangesNothingWitness ==
    /\ fetches.by = "collect" /\ ~fetches.found
    /\ fetches.channel = "c1"
    /\ "c1" \in DOMAIN staging
    /\ staging["c1"].videos # <<>>
    /\ staging["c1"].comments # <<>>

\* the rows of the staged channels a migration is to write, all channels
\* together
RECURSIVE StagedRows(_, _)
StagedRows(kind, i) ==
    IF i = 0 THEN 0
    ELSE StagedRows(kind, i - 1) + Len(staging[order[i]][kind])

\* the records the calls of one handler step returned for an operation
RECURSIVE Returned(_, _, _)
Returned(calls, op, i) ==
    IF i = 0 THEN 0
    ELSE Returned(calls, op, i - 1) + (IF calls[i].op = op THEN calls[i].n ELSE 0)

\* C13: a migration that starts on an empty warehouse and meets no storage
\* failure leaves one channel row per staged channel, one video row per
\* video the API returned and one comment row per comment it returned; the
\* comments staged for a channel are those of all its videos together, a
\* video with comments disabled adding none and taking none away.
LoadedExactly ==
    /\ (pc = "finish" /\ fresh /\ \A i \in 1..Len(writes) : writes[i].ok) =>
          /\ {r.channel_id : r \in channels} = DOMAIN staging
          /\ Cardinality(channels) = Len(order)
          /\ {r.video_id : r \in videos} =
                 UNION {{staging[id].videos[j].video_id :
                            j \in 1..Len(staging[id].videos)} : id \in DOMAIN staging}
          /\ Cardinality(videos) = StagedRows("videos", Len(order))
          /\ {r.comment_id : r \in comments} =
                 UNION {{staging[id].comments[j].comment_id :
                            j \in 1..Len(staging[id].comments)} : id \in DOMAIN staging}
          /\ Cardinality(comments) = StagedRows("comments", Len(order))
    /\ (/\ fetches.by \in {"collect", "load_comments"}
        /\ \E i \in 1..Len(fetches.calls) : fetches.calls[i].op = "get_comments_of_video") =>
          /\ Len(staging[fetches.channel].comments) =
                 Returned(fetches.calls, "get_comments_of_video", Len(fetches.calls))
          /\ \A i \in 1..Len(fetches.calls) :
                (fetches.calls[i].op = "get_comments_of_video"
                    /\ fetches.calls[i].arg \in CommentsDisabledOn)
                        => fetches.calls[i].n = 0

\* channel c1 alone, its two videos, the three comments of the one video
\* that allows comments: 1 channel row, 2 video rows, 3 comment rows
LoadedExactlyWitness ==
    /\ pc = "finish" /\ fresh
    /\ \A i \in 1..Len(writes) : writes[i].ok
    /\ order = <<"c1">>
    /\ Cardinality(channels) = 1
    /\ Cardinality(videos) = 2
    /\ Cardinality(comments) = 3
    /\ fetches.by = "load_comments"
    /\ Len(fetches.calls) = 2

\* the rows of the batches of a kind that committed in the running migration
RECURSIVE RowsCommitted(_, _)
RowsCommitted(kind, i) ==
    IF i = 0 THEN 0
    ELSE RowsCommitted(kind, i - 1) +
         (IF writes[i].kind = kind /\ writes[i].ok THEN writes[i].rows ELSE 0)

\* C14: the report of a migration counts no batch that rolled back, and a
\* migration in which a batch rolled back is not reported as complete.
ReportTellsFailures ==
    pc = "finish" =>
        /\ migration_report.channels = RowsCommitted("channel", Len(writes))
        /\ migration_report.videos = RowsCommitted("videos", Len(writes))
        /\ migration_report.comments = RowsCommitted("comments", Len(writes))
        /\ SomeWriteRolledBack => migration_report.message # "Migration complete!"

\* C18: in a migration the playlist is enumerated for a staged channel
\* exactly when its video fetch was never run to the end, and its comments
\* are fetched exactly when it has videos and its comment fetch was never run
\* to the end; a fetch that ended with nothing to stage is not run again.
LazyFillOnlyWhenNeverFetched ==
    /\ fetches.by = "load_videos" =>
          ((\E i \in 1..Len(fetches.calls) :
                fetches.calls[i].op = "get_playlist_video_ids")
             <=> ~fetched[fetches.channel].videos)
    /\ fetches.by = "load_comments" =>
          ((\E i \in 1..Len(fetches.calls) :
                fetches.calls[i].op = "get_comments_of_video")
             <=> (staging[fetches.channel].videos # <<>>
                     /\ ~fetched[fetches.channel].comments))

\* C19: for every staged channel, comments are staged only if videos are, and
\* every staged comment is a comment of a video staged for the channel.
StagedCommentsHaveVideos ==
    \A id \in DOMAIN staging :
        /\ staging[id].comments # <<>> => staging[id].videos # <<>>
        /\ \A j \in 1..Len(staging[id].comments) :
              \E k \in 1..Len(staging[id].videos) :
                  staging[id].videos[k].video_id = staging[id].comments[j].video_id

\* C17: a call made less than one hour after a call of the same operation
\* with the same arguments stored its result returns that result, a record,
\* no record or an empty list alike, and issues no upstream call; a call with
\* no such entry, or with one an hour old or older, issues the upstream call
\* and returns what it gives.
MemoizedForOneHour ==
    api.op = "cached" =>
        LET young == {e \in api.prior : api.at - e.at < 3600} IN
        /\ young # {} =>
               ~api.issued /\ \A e \in young : api.result = e.value
        /\ young = {} =>
               /\ api.issued
               /\ api.result = upstream_call(api.f, api.args, api.youtube)

\* a memoized absent or empty result is served while YouTube would answer
\* with records
MemoizedForOneHourWitness ==
    /\ api.op = "cached"
    /\ ~api.issued
    /\ api.at > 0
    /\ api.result = <<>>
    /\ upstream_call(api.f, api.args, api.youtube) # <<>>

\* C21: every videos().list call carries between 1 and 50 IDs, every
\* playlistItems().list request asks for 50 items, and every
\* commentThreads().list request asks for min(100, max_results - accumulated)
\* items, a number between 1 and 100.
PerCallCaps ==
    /\ (api.op = "get_video_details" /\ api.done) =>
           \A i \in 1..Len(api.calls) :
               Len(api.calls[i]) >= 1 /\ Len(api.calls[i]) <= 50
    /\ (api.op = "get_playlist_video_ids" /\ api.done) =>
           \A i \in 1..Len(api.requests) : api.requests[i].maxResults = 50
    /\ (api.op = "get_comments_of_video" /\ api.done) =>
           \A i \in 1..Len(api.requests) :
               LET left == api.max_results - api.requests[i].collected IN
               /\ api.requests[i].maxResults = IF left < 100 THEN left ELSE 100
               /\ api.requests[i].maxResults >= 1
               /\ api.requests[i].maxResults <= 100

\* more than 100 comments were asked for: the first request asks for 100, the
\* second for what is left
PerCallCapsWitness ==
    /\ api.op = "get_comments_of_video" /\ api.done
    /\ api.max_results > 100
    /\ Len(api.requests) = 2
    /\ api.requests[1].maxResults = 100
    /\ api.requests[2].collected > 0
    /\ api.requests[2].maxResults = api.max_results - api.requests[2].collected

\* C22: over finitely many pages both pagination loops return.
\* get_playlist_video_ids issues one request per page, none twice;
\* get_comments_of_video issues at most max_results requests when every page
\* that carries a continuation token holds an item; with max_results <= 0 it
\* returns an empty list and issues no request.
PaginationTerminates ==
    /\ <>api.done
    /\ []((api.op = "playlist_loop" /\ api.done) =>
             LET n == Len(api.out.requests) IN
             /\ n >= 1 /\ n <= Len(api.trail)
             /\ \A k \in 1..n : api.out.requests[k].pageToken = api.trail[k]
             /\ (\A t \in DOMAIN api.pages : api.pages[t].outcome = "ok") =>
                    n = Len(api.trail))
    /\ []((api.op = "comments_loop" /\ api.done /\ api.max_results > 0
              /\ \A k \in DOMAIN api.pages :
                     api.pages[k].next => Len(api.pages[k].items) >= 1) =>
             Len(api.out.requests) <= api.max_results)
    /\ []((api.op = "comments_loop" /\ api.max_results <= 0) =>
             api.out.result = <<>> /\ api.out.requests = <<>>)

\* two comments were asked for and three pages, one comment each, were on
\* offer: the loop returned after two requests
PaginationTerminatesWitness ==
    /\ api.op = "comments_loop" /\ api.done
    /\ api.max_results = 2
    /\ Len(api.pages) = 3
    /\ \A k \in 1..3 : Len(api.pages[k].items) = 1
    /\ api.pages[1].next /\ api.pages[2].next
    /\ Len(api.out.requests) = 2
    /\ Len(api.out.result) = 2

\* the gateway calls a run makes for a staged channel: one for its channel
\* row, one for its videos and one for its comments when it has any
Attempts(ch) ==
    <<[channel |-> ch, kind |-> "channel"]>>
    \o (IF staging[ch].videos # <<>>
        THEN <<[channel |-> ch, kind |-> "videos"]>> ELSE <<>>)
    \o (IF staging[ch].comments # <<>>
        THEN <<[channel |-> ch, kind |-> "comments"]>> ELSE <<>>)

RECURSIVE AttemptsFrom(_)
AttemptsFrom(i) ==
    IF i > Len(order) THEN <<>> ELSE Attempts(order[i]) \o AttemptsFrom(i + 1)

\* the rows of a gateway call of the run are stored
Stored(w) ==
    LET data == staging[w.channel] IN
    CASE w.kind = "channel" -> data.channel_info \in channels
      [] w.kind = "videos" ->
            \A j \in 1..Len(data.videos) :
                process_video_data(data.videos)[j] \in videos
      [] w.kind = "comments" ->
            \A j \in 1..Len(data.comments) :
                process_comment_data(data.comments)[j] \in comments

\* C23: a loadAll run makes the gateway calls of every staged channel, once
\* and in staging order, whichever of them rolled back; the rows of a call
\* that committed are stored from then on to the end of the run.
LoadRunsThrough ==
    /\ pc = "finish" =>
           [k \in 1..Len(writes) |->
               [channel |-> writes[k].channel, kind |-> writes[k].kind]]
           = AttemptsFrom(1)
    /\ pc \in {"load", "finish"} =>
           \A k \in 1..Len(writes) : writes[k].ok => Stored(writes[k])

\* the first channel's row was rolled back, and the run went on to store the
\* second channel and its videos
LoadRunsThroughWitness ==
    /\ pc = "finish"
    /\ Len(order) = 2
    /\ ~writes[1].ok
    /\ \E k \in 2..Len(writes) :
           /\ writes[k].channel = order[1] /\ writes[k].kind = "videos"
    /\ \E k, m \in 2..Len(writes) :
           /\ writes[k].channel = order[2] /\ writes[k].kind = "channel"
           /\ writes[k].ok
           /\ writes[m].channel = order[2] /\ writes[m].kind = "videos"
           /\ writes[m].ok

\* C24: a committed insert_video_data call leaves, for every video ID of the
\* batch, one row that carries the title, published date, views, likes,
\* comment count and duration of the batch's last row for that ID; its
\* channel_id is the one stored before the call when the ID was stored, and
\* the incoming one when the ID was absent and came once in the batch.
UpsertVideoFields ==
    [][(gw'.op = "videos" /\ gw'.ok) =>
          \A row \in gw'.last :
              LET before == existing_video(videos, row.video_id)
                  after == existing_video(videos', row.video_id)
              IN
              /\ Cardinality(after) = 1
              /\ \A new \in after :
                    /\ new.title = row.title
                    /\ new.published_date = row.published_date
                    /\ new.views = row.views
                    /\ new.likes = row.likes
                    /\ new.comments_count = row.comments_count
                    /\ new.duration_seconds = row.duration_seconds
                    /\ \A old \in before : new.channel_id = old.channel_id
                    /\ (before = {} /\ ~gw'.repeats) => new = row
      ]_vars

\* a stored video was written again under another channel: it took the new
\* title and kept its channel
UpsertVideoFieldsWitness ==
    /\ gw.op = "videos"
    /\ gw.ok
    /\ ~gw.repeats
    /\ \E row \in gw.last : \E r \in videos :
           /\ r.video_id = row.video_id
           /\ r.title = row.title
           /\ r.views = row.views
           /\ r.channel_id # row.channel_id

====
